---- MODULE Spec2Model ----
(***************************************************************************)
(* A model of the value-encoding combinators (src/src/encode/values.rs)    *)
(* and of the canonical INTEGER wrappers (src/src/int.rs) of bcder.        *)
(*                                                                         *)
(* A value encoder is a tree; encoded_len and write_encoded are the two    *)
(* methods of the Values trait, dispatched on the node's kind.  A sink is  *)
(* an io::Write target that accepts a bounded number of octets and then    *)
(* reports an error.                                                       *)
(***************************************************************************)
EXTENDS Integers, Sequences, FiniteSets, TLC

VARIABLES
    val,      \* the value encoder built so far
    steps,    \* number of combinators applied
    pc,       \* "build" | "encoded", or "start" | "decode" for the integers
    mode,     \* the Mode of the encode call
    len,      \* what encoded_len(mode) returned
    res,      \* what write_encoded(mode, sink) returned, and the sink after it
    content,  \* the content octets handed to take_content_from
    native,   \* the u32 that content was converted from, or NoNative
    int,      \* result of Integer::take_content_from
    uns,      \* result of Unsigned::take_content_from
    plen,     \* Unsigned's PrimitiveContent::encoded_len
    pres      \* Unsigned's PrimitiveContent::write_encoded result

vars == <<val, steps, pc, mode, len, res,
          content, native, int, uns, plen, pres>>

valVars == <<val, steps, mode, len, res>>
intVars == <<content, native, int, uns, plen, pres>>

-----------------------------------------------------------------------------
(* Bounds *)

MaxSteps == 2        \* combinators applied to the first value
MaxItems == 2        \* items of a slice, Vec or Iter built in one step
LongBase == 126      \* DER octets of the shortest long list that is built
LongRow == 8         \* items of one inner Vec of a long list
MaxLen == 140        \* largest DER encoding (in octets) that is built
MaxRoom == 4         \* largest number of octets a failing sink accepts
MaxContentLen == 4   \* longest INTEGER content decoded

-----------------------------------------------------------------------------
(* Mode, Tag, Length: the wire-format atoms *)

Modes == {"Ber", "Der", "Cer"}

\* A tag is its identifier octets with the constructed bit clear.
Tag_SEQUENCE == <<16>>
Tag_CTX_31 == <<159, 31>>

Tag_encoded_len(tag) == Len(tag)

Definite(n) == [kind |-> "Definite", len |-> n]
Indefinite == [kind |-> "Indefinite"]

Length_encoded_len(length) ==
    IF length.kind = "Indefinite" THEN 1
    ELSE IF length.len < 128 THEN 1
    ELSE IF length.len < 256 THEN 2
    ELSE IF length.len < 65536 THEN 3
    ELSE 4

Length_octets(length) ==
    IF length.kind = "Indefinite" THEN <<128>>
    ELSE IF length.len < 128 THEN <<length.len>>
    ELSE IF length.len < 256 THEN <<129, length.len>>
    ELSE IF length.len < 65536
        THEN <<130, length.len \div 256, length.len % 256>>
    ELSE <<131, length.len \div 65536, (length.len \div 256) % 256,
           length.len % 256>>

-----------------------------------------------------------------------------
(* The sink *)

Ok == "Ok"
ErrorKinds == {"WriteZero", "BrokenPipe"}
Unlimited == -1

\* A sink that fails with error `kind` once `room` octets were accepted.
NewSink(room, kind) ==
    [out |-> <<>>, room |-> room, kind |-> kind, failed |-> FALSE, late |-> 0]

Returned(target, result) == [target |-> target, result |-> result]

\* io::Write::write_all: all of buf is accepted, or as much as there is room
\* for and the sink's error is returned.  The sink fails once; a call made
\* after the failure is accepted and counted in `late`.
write_all(target, buf) ==
    IF target.failed
        THEN Returned([target EXCEPT !.out = @ \o buf, !.late = @ + 1], Ok)
    ELSE IF target.room = Unlimited
        THEN Returned([target EXCEPT !.out = @ \o buf], Ok)
    ELSE IF Len(buf) <= target.room
        THEN Returned([target EXCEPT !.out = @ \o buf,
                                     !.room = @ - Len(buf)], Ok)
    ELSE Returned([target EXCEPT !.out = @ \o SubSeq(buf, 1, target.room),
                                 !.room = 0,
                                 !.failed = TRUE], target.kind)

Tag_write_encoded(tag, constructed, target) ==
    write_all(target,
              <<IF constructed THEN tag[1] + 32 ELSE tag[1]>> \o Tail(tag))

Length_write_encoded(length, target) ==
    write_all(target, Length_octets(length))

-----------------------------------------------------------------------------
(* Value encoders *)

Nothing == [kind |-> "Nothing"]
None == [kind |-> "None"]
Some(v) == [kind |-> "Some", v |-> v]
Ref(v) == [kind |-> "Ref", to |-> v]
Tuple(fields) ==
    [kind |-> CASE Len(fields) = 2 -> "Tuple2"
                [] Len(fields) = 3 -> "Tuple3"
                [] Len(fields) = 4 -> "Tuple4",
     fields |-> fields]
Slice(items) == [kind |-> "Slice", items |-> items]
Vec(items) == [kind |-> "Vec", items |-> items]
Constructed_new(tag, inner) ==
    [kind |-> "Constructed", tag |-> tag, inner |-> inner]
Choice2_One(inner) == [kind |-> "Choice2_One", inner |-> inner]
Choice2_Two(inner) == [kind |-> "Choice2_Two", inner |-> inner]
Choice3_One(inner) == [kind |-> "Choice3_One", inner |-> inner]
Choice3_Two(inner) == [kind |-> "Choice3_Two", inner |-> inner]
Choice3_Three(inner) == [kind |-> "Choice3_Three", inner |-> inner]
Iter_new(iter) == [kind |-> "Iter", coll |-> iter]

explicit(self, tag) == Constructed_new(tag, self)
sequence(inner) == Constructed_new(Tag_SEQUENCE, inner)
sequence_as(tag, inner) == Constructed_new(tag, inner)
set_as(tag, inner) == Constructed_new(tag, inner)

\* &Iter<T> as IntoIterator: a fresh traversal of a clone of the collection.
Iter_into_iter(self) == self.coll

RECURSIVE encoded_len(_, _)
RECURSIVE write_encoded(_, _, _)

\* --- &T
Ref_encoded_len(self, m) == encoded_len(self.to, m)
Ref_write_encoded(self, m, target) == write_encoded(self.to, m, target)

\* --- tuples
Tuple2_encoded_len(self, m) ==
    encoded_len(self.fields[1], m) + encoded_len(self.fields[2], m)

Tuple2_write_encoded(self, m, target) ==
    LET r0 == write_encoded(self.fields[1], m, target) IN
    IF r0.result # Ok THEN r0 ELSE
    LET r1 == write_encoded(self.fields[2], m, r0.target) IN
    IF r1.result # Ok THEN r1 ELSE
    Returned(r1.target, Ok)

Tuple3_encoded_len(self, m) ==
    encoded_len(self.fields[1], m) + encoded_len(self.fields[2], m)
    + encoded_len(self.fields[3], m)

Tuple3_write_encoded(self, m, target) ==
    LET r0 == write_encoded(self.fields[1], m, target) IN
    IF r0.result # Ok THEN r0 ELSE
    LET r1 == write_encoded(self.fields[2], m, r0.target) IN
    IF r1.result # Ok THEN r1 ELSE
    LET r2 == write_encoded(self.fields[3], m, r1.target) IN
    IF r2.result # Ok THEN r2 ELSE
    Returned(r2.target, Ok)

Tuple4_encoded_len(self, m) ==
    encoded_len(self.fields[1], m) + encoded_len(self.fields[2], m)
    + encoded_len(self.fields[3], m) + encoded_len(self.fields[4], m)

Tuple4_write_encoded(self, m, target) ==
    LET r0 == write_encoded(self.fields[1], m, target) IN
    IF r0.result # Ok THEN r0 ELSE
    LET r1 == write_encoded(self.fields[2], m, r0.target) IN
    IF r1.result # Ok THEN r1 ELSE
    LET r2 == write_encoded(self.fields[3], m, r1.target) IN
    IF r2.result # Ok THEN r2 ELSE
    LET r3 == write_encoded(self.fields[4], m, r2.target) IN
    IF r3.result # Ok THEN r3 ELSE
    Returned(r3.target, Ok)

\* --- Option
Option_encoded_len(self, m) ==
    IF self.kind = "Some" THEN encoded_len(self.v, m) ELSE 0

Option_write_encoded(self, m, target) ==
    IF self.kind = "Some" THEN write_encoded(self.v, m, target)
    ELSE Returned(target, Ok)

\* --- slice and Vec
\* iter.map(|v| v.encoded_len(mode)).sum(), from the i-th item on
RECURSIVE SumEncodedLen(_, _, _)
SumEncodedLen(iter, i, m) ==
    IF i > Len(iter) THEN 0
    ELSE encoded_len(iter[i], m) + SumEncodedLen(iter, i + 1, m)

\* for v in iter { v.write_encoded(mode, target)?; }; Ok(()), from the i-th
\* item on
RECURSIVE ForEachWrite(_, _, _, _)
ForEachWrite(iter, i, m, target) ==
    IF i > Len(iter) THEN Returned(target, Ok)
    ELSE LET r == write_encoded(iter[i], m, target) IN
         IF r.result # Ok THEN r
         ELSE ForEachWrite(iter, i + 1, m, r.target)

Slice_encoded_len(self, m) == SumEncodedLen(self.items, 1, m)
Slice_write_encoded(self, m, target) ==
    ForEachWrite(self.items, 1, m, target)

Vec_encoded_len(self, m) == SumEncodedLen(self.items, 1, m)
Vec_write_encoded(self, m, target) ==
    ForEachWrite(self.items, 1, m, target)

\* --- EndOfValue
EndOfValue_encoded_len(m) == 2
EndOfValue_write_encoded(m, target) == write_all(target, <<0, 0>>)

\* --- Constructed
\* Constructed::encoded_len that takes every definite length field to be one
\* octet long
Constructed_encoded_len_short(self, m) ==
    LET len0 == encoded_len(self.inner, m)
        len1 == len0 + IF m \in {"Ber", "Der"}
                           THEN 1
                           ELSE Length_encoded_len(Indefinite)
                                + EndOfValue_encoded_len(m)
    IN  Tag_encoded_len(self.tag) + len1

Constructed_encoded_len(self, m) ==
    LET len0 == encoded_len(self.inner, m)
        len1 == len0 + IF m \in {"Ber", "Der"}
                           THEN Length_encoded_len(Definite(len0))
                           ELSE Length_encoded_len(Indefinite)
                                + EndOfValue_encoded_len(m)
    IN  Tag_encoded_len(self.tag) + len1

\* Constructed::write_encoded that leaves out the end-of-contents octets of
\* an empty value
Constructed_write_encoded_noeoc(self, m, target) ==
    LET rt == Tag_write_encoded(self.tag, TRUE, target) IN
    IF rt.result # Ok THEN rt ELSE
    IF m \in {"Ber", "Der"}
        THEN LET rl == Length_write_encoded(
                           Definite(encoded_len(self.inner, m)), rt.target)
             IN  IF rl.result # Ok THEN rl
                 ELSE write_encoded(self.inner, m, rl.target)
        ELSE LET rl == Length_write_encoded(Indefinite, rt.target) IN
             IF rl.result # Ok THEN rl ELSE
             LET rc == write_encoded(self.inner, m, rl.target) IN
             IF rc.result # Ok THEN rc
             ELSE IF encoded_len(self.inner, m) = 0 THEN rc
             ELSE EndOfValue_write_encoded(m, rc.target)

\* Constructed::write_encoded that frames BER like CER
Constructed_write_encoded_berindef(self, m, target) ==
    LET rt == Tag_write_encoded(self.tag, TRUE, target) IN
    IF rt.result # Ok THEN rt ELSE
    IF m = "Der"
        THEN LET rl == Length_write_encoded(
                           Definite(encoded_len(self.inner, m)), rt.target)
             IN  IF rl.result # Ok THEN rl
                 ELSE write_encoded(self.inner, m, rl.target)
        ELSE LET rl == Length_write_encoded(Indefinite, rt.target) IN
             IF rl.result # Ok THEN rl ELSE
             LET rc == write_encoded(self.inner, m, rl.target) IN
             IF rc.result # Ok THEN rc
             ELSE EndOfValue_write_encoded(m, rc.target)

\* Constructed::write_encoded that closes a CER value even when writing its
\* content failed
Constructed_write_encoded_close(self, m, target) ==
    LET rt == Tag_write_encoded(self.tag, TRUE, target) IN
    IF rt.result # Ok THEN rt ELSE
    IF m \in {"Ber", "Der"}
        THEN LET rl == Length_write_encoded(
                           Definite(encoded_len(self.inner, m)), rt.target)
             IN  IF rl.result # Ok THEN rl
                 ELSE write_encoded(self.inner, m, rl.target)
        ELSE LET rl == Length_write_encoded(Indefinite, rt.target) IN
             IF rl.result # Ok THEN rl ELSE
             LET rc == write_encoded(self.inner, m, rl.target)
                 re == EndOfValue_write_encoded(m, rc.target)
             IN  IF rc.result # Ok THEN Returned(re.target, rc.result)
                 ELSE re

Constructed_write_encoded(self, m, target) ==
    LET rt == Tag_write_encoded(self.tag, TRUE, target) IN
    IF rt.result # Ok THEN rt ELSE
    IF m \in {"Ber", "Der"}
        THEN LET rl == Length_write_encoded(
                           Definite(encoded_len(self.inner, m)), rt.target)
             IN  IF rl.result # Ok THEN rl
                 ELSE write_encoded(self.inner, m, rl.target)
        ELSE LET rl == Length_write_encoded(Indefinite, rt.target) IN
             IF rl.result # Ok THEN rl ELSE
             LET rc == write_encoded(self.inner, m, rl.target) IN
             IF rc.result # Ok THEN rc
             ELSE EndOfValue_write_encoded(m, rc.target)

\* --- Choice2, Choice3
Choice2_encoded_len(self, m) ==
    CASE self.kind = "Choice2_One" -> encoded_len(self.inner, m)
      [] self.kind = "Choice2_Two" -> encoded_len(self.inner, m)

Choice2_write_encoded(self, m, target) ==
    CASE self.kind = "Choice2_One" -> write_encoded(self.inner, m, target)
      [] self.kind = "Choice2_Two" -> write_encoded(self.inner, m, target)

Choice3_encoded_len(self, m) ==
    CASE self.kind = "Choice3_One" -> encoded_len(self.inner, m)
      [] self.kind = "Choice3_Two" -> encoded_len(self.inner, m)
      [] self.kind = "Choice3_Three" -> encoded_len(self.inner, m)

\* Choice3::write_encoded whose third arm writes nothing
Choice3_write_encoded_three(self, m, target) ==
    CASE self.kind = "Choice3_One" -> write_encoded(self.inner, m, target)
      [] self.kind = "Choice3_Two" -> write_encoded(self.inner, m, target)
      [] self.kind = "Choice3_Three" -> Returned(target, Ok)

Choice3_write_encoded(self, m, target) ==
    CASE self.kind = "Choice3_One" -> write_encoded(self.inner, m, target)
      [] self.kind = "Choice3_Two" -> write_encoded(self.inner, m, target)
      [] self.kind = "Choice3_Three" -> write_encoded(self.inner, m, target)

\* --- Iter
Iter_encoded_len(self, m) == SumEncodedLen(Iter_into_iter(self), 1, m)

\* Iter::write_encoded over an iterator that has been advanced by one item
Iter_write_encoded_advanced(self, m, target) ==
    ForEachWrite(Iter_into_iter(self), 2, m, target)

\* try_for_each(|item| item.write_encoded(mode, target))
Iter_write_encoded(self, m, target) ==
    ForEachWrite(Iter_into_iter(self), 1, m, target)

\* --- Nothing
Nothing_encoded_len(self, m) == 0
Nothing_write_encoded(self, m, target) == Returned(target, Ok)

\* --- the Values trait: each call goes to the impl of the value's type
encoded_len(self, m) ==
    CASE self.kind = "Nothing" -> Nothing_encoded_len(self, m)
      [] self.kind = "Ref" -> Ref_encoded_len(self, m)
      [] self.kind = "Tuple2" -> Tuple2_encoded_len(self, m)
      [] self.kind = "Tuple3" -> Tuple3_encoded_len(self, m)
      [] self.kind = "Tuple4" -> Tuple4_encoded_len(self, m)
      [] self.kind \in {"Some", "None"} -> Option_encoded_len(self, m)
      [] self.kind = "Slice" -> Slice_encoded_len(self, m)
      [] self.kind = "Vec" -> Vec_encoded_len(self, m)
      [] self.kind = "Constructed" -> Constructed_encoded_len(self, m)
      [] self.kind \in {"Choice2_One", "Choice2_Two"} ->
            Choice2_encoded_len(self, m)
      [] self.kind \in {"Choice3_One", "Choice3_Two", "Choice3_Three"} ->
            Choice3_encoded_len(self, m)
      [] self.kind = "Iter" -> Iter_encoded_len(self, m)

write_encoded(self, m, target) ==
    CASE self.kind = "Nothing" -> Nothing_write_encoded(self, m, target)
      [] self.kind = "Ref" -> Ref_write_encoded(self, m, target)
      [] self.kind = "Tuple2" -> Tuple2_write_encoded(self, m, target)
      [] self.kind = "Tuple3" -> Tuple3_write_encoded(self, m, target)
      [] self.kind = "Tuple4" -> Tuple4_write_encoded(self, m, target)
      [] self.kind \in {"Some", "None"} ->
            Option_write_encoded(self, m, target)
      [] self.kind = "Slice" -> Slice_write_encoded(self, m, target)
      [] self.kind = "Vec" -> Vec_write_encoded(self, m, target)
      [] self.kind = "Constructed" ->
            Constructed_write_encoded(self, m, target)
      [] self.kind \in {"Choice2_One", "Choice2_Two"} ->
            Choice2_write_encoded(self, m, target)
      [] self.kind \in {"Choice3_One", "Choice3_Two", "Choice3_Three"} ->
            Choice3_write_encoded(self, m, target)
      [] self.kind = "Iter" -> Iter_write_encoded(self, m, target)

\* Values::to_captured: the octets written to a fresh Vec<u8>
to_captured(self, m) ==
    write_encoded(self, m, NewSink(Unlimited, "WriteZero")).target.out

-----------------------------------------------------------------------------
(* Canonical integers (src/src/int.rs) *)

Malformed == "Malformed"

\* x & 0x80 != 0
HighBitSet(x) == (x \div 128) % 2 = 1

\* Bytes::get(i): an Option, here a sequence of no or one element
get(bytes, i) == IF i < Len(bytes) THEN <<bytes[i + 1]>> ELSE <<>>

\* Option::map(|x| x & 0x80 != 0)
map_high_bit(opt) == IF opt = <<>> THEN <<>> ELSE <<HighBitSet(opt[1])>>

\* decode::Primitive::take_all: all the content octets of the primitive value
take_all(prim) == prim

\* The tuple structs Integer(Bytes) and Unsigned(Bytes)
Integer(bytes) == <<bytes>>
Unsigned(bytes) == <<bytes>>

Decoded(result, value) == [result |-> result, value |-> value]

\* Integer::take_content_from that rejects every leading 0x00 before a second
\* octet
Integer_take_content_from_zero(prim) ==
    LET r == take_all(prim)
        b0 == get(r, 0)
        b1 == map_high_bit(get(r, 1))
    IN  IF b0 = <<0>> /\ b1 # <<>> THEN Decoded(Malformed, <<>>)
        ELSE IF b0 = <<255>> /\ b1 = <<TRUE>> THEN Decoded(Malformed, <<>>)
        ELSE IF b0 = <<>> THEN Decoded(Malformed, <<>>)
        ELSE Decoded(Ok, Integer(r))

Integer_take_content_from(prim) ==
    LET r == take_all(prim)
        b0 == get(r, 0)
        b1 == map_high_bit(get(r, 1))
    IN  IF b0 = <<0>> /\ b1 = <<FALSE>> THEN Decoded(Malformed, <<>>)
        ELSE IF b0 = <<255>> /\ b1 = <<TRUE>> THEN Decoded(Malformed, <<>>)
        ELSE IF b0 = <<>> THEN Decoded(Malformed, <<>>)
        ELSE Decoded(Ok, Integer(r))

\* Unsigned::take_content_from without the sign check
Unsigned_take_content_from_signed(prim) ==
    LET r == take_all(prim)
        b0 == get(r, 0)
        b1 == map_high_bit(get(r, 1))
    IN  IF b0 = <<0>> /\ b1 = <<FALSE>> THEN Decoded(Malformed, <<>>)
        ELSE IF b0 = <<255>> /\ b1 = <<TRUE>> THEN Decoded(Malformed, <<>>)
        ELSE IF b0 = <<>> THEN Decoded(Malformed, <<>>)
        ELSE Decoded(Ok, Unsigned(r))

Unsigned_take_content_from(prim) ==
    LET r == take_all(prim)
        b0 == get(r, 0)
        b1 == map_high_bit(get(r, 1))
    IN  IF b0 = <<0>> /\ b1 = <<FALSE>> THEN Decoded(Malformed, <<>>)
        ELSE IF b0 = <<255>> /\ b1 = <<TRUE>> THEN Decoded(Malformed, <<>>)
        ELSE IF b0 # <<>> /\ HighBitSet(b0[1]) THEN Decoded(Malformed, <<>>)
        ELSE IF b0 = <<>> THEN Decoded(Malformed, <<>>)
        ELSE Decoded(Ok, Unsigned(r))

\* Unsigned::encoded_len that does not count a leading 0x00
Unsigned_encoded_len_value(self, m) ==
    IF self[1][1] = 0 THEN Len(self[1]) - 1 ELSE Len(self[1])

\* impl PrimitiveContent for Unsigned
Unsigned_encoded_len(self, m) == Len(self[1])
Unsigned_write_encoded(self, m, target) == write_all(target, self[1])

\* A u32 is its two 16-bit halves: n = hi * 2^16 + lo.
U32(hi, lo) == [hi |-> hi, lo |-> lo]
to_be_bytes(n) == <<n.hi \div 256, n.hi % 256, n.lo \div 256, n.lo % 256>>

RECURSIVE StripLeadingZeros(_)
StripLeadingZeros(bytes) ==
    IF Len(bytes) > 1 /\ bytes[1] = 0 THEN StripLeadingZeros(Tail(bytes))
    ELSE bytes

\* u32 as PrimitiveContent, to_encoded_bytes: the minimal big-endian two's
\* complement octets, a 0x00 in front when the top octet has its high bit set
to_encoded_bytes(n, m) ==
    LET value == StripLeadingZeros(to_be_bytes(n))
    IN  IF HighBitSet(value[1]) THEN <<0>> \o value ELSE value

\* Unsigned::from that takes the four octets of the u32 as they are
Unsigned_from_fixed(n) == Unsigned(to_be_bytes(n))

\* impl From<u32> for Unsigned
Unsigned_from(n) == Unsigned(to_encoded_bytes(n, "Der"))

-----------------------------------------------------------------------------
(* Building and encoding value encoders *)

NotRun == "NotRun"
NoResult == Returned(NewSink(Unlimited, "WriteZero"), NotRun)
NoNative == U32(-1, -1)
NoDecode == Decoded(NotRun, <<>>)

Tags == {Tag_SEQUENCE, Tag_CTX_31}

\* The other field of a tuple and every second item of a list.
Sibling == explicit(Nothing, Tag_CTX_31)

\* A Vec of Vecs of empty SEQUENCEs (two octets each in DER) and, for an odd
\* size, one Sibling (three octets), that encodes to `size` octets in DER.
LongSizes == {LongBase, LongBase + 1, LongBase + 2}
LongItems(size) ==
    IF size % 2 = 0 THEN [i \in 1..(size \div 2) |-> sequence(Nothing)]
    ELSE [i \in 1..((size - 3) \div 2) |-> sequence(Nothing)] \o <<Sibling>>
Rows(items) ==
    [i \in 1..((Len(items) + LongRow - 1) \div LongRow) |->
        Vec(SubSeq(items, (i - 1) * LongRow + 1,
                   IF i * LongRow <= Len(items) THEN i * LongRow
                                                 ELSE Len(items)))]
Long(size) == Vec(Rows(LongItems(size)))

Items(v, n) == [i \in 1..n |-> IF i % 2 = 1 THEN v ELSE Sibling]

IntIdle ==
    /\ content = <<>>
    /\ native = NoNative
    /\ int = NoDecode
    /\ uns = NoDecode
    /\ plen = -1
    /\ pres = NoResult

Init ==
    /\ val = Nothing
    /\ steps = 0
    /\ pc = "build"
    /\ mode = "Der"
    /\ len = -1
    /\ res = NoResult
    /\ IntIdle

Build(v) ==
    /\ pc = "build"
    /\ steps < MaxSteps
    /\ encoded_len(v, "Der") <= MaxLen
    /\ val' = v
    /\ steps' = steps + 1
    /\ UNCHANGED <<pc, mode, len, res, intVars>>

Explicit(tag) == Build(explicit(val, tag))
Sequence == Build(sequence(val))
SequenceAs(tag) == Build(sequence_as(tag, val))
SetAs(tag) == Build(set_as(tag, val))
MkRef == Build(Ref(val))
MkTuple2(first) ==
    Build(Tuple(IF first THEN <<val, Sibling>> ELSE <<Sibling, val>>))
MkTuple3 == Build(Tuple(<<val, Sibling, val>>))
MkTuple4 == Build(Tuple(<<Sibling, val, Sibling, val>>))
MkSome == Build(Some(val))
MkNone == Build(None)
MkLong(size) == val = Nothing /\ steps = 0 /\ Build(Long(size))
MkSlice(n) == Build(Slice(Items(val, n)))
MkVec(n) == Build(Vec(Items(val, n)))
MkIter(n) == Build(Iter_new(Items(val, n)))
MkChoice2One == Build(Choice2_One(val))
MkChoice2Two == Build(Choice2_Two(val))
MkChoice3One == Build(Choice3_One(val))
MkChoice3Two == Build(Choice3_Two(val))
MkChoice3Three == Build(Choice3_Three(val))

\* The sinks written to: a Vec<u8>, which takes everything, a full buffer
\* (WriteZero) and a pipe that breaks (BrokenPipe) after `room` octets.
Sinks ==
    {NewSink(Unlimited, "WriteZero")}
    \cup {NewSink(room, IF room % 2 = 0 THEN "WriteZero" ELSE "BrokenPipe") :
             room \in 0..MaxRoom}

\* One encode call: encoded_len(mode), then write_encoded(mode, sink).
Encode(m, sink) ==
    /\ pc = "build"
    /\ pc' = "encoded"
    /\ mode' = m
    /\ len' = encoded_len(val, m)
    /\ res' = write_encoded(val, m, sink)
    /\ UNCHANGED <<val, steps, intVars>>

Next ==
    \/ \E tag \in Tags : Explicit(tag) \/ SequenceAs(tag) \/ SetAs(tag)
    \/ Sequence
    \/ \E first \in BOOLEAN : MkTuple2(first)
    \/ MkRef
    \/ MkTuple3
    \/ MkTuple4
    \/ MkSome
    \/ MkNone
    \/ \E n \in {0, MaxItems} : MkSlice(n) \/ MkVec(n)
    \/ \E n \in 0..MaxItems : MkIter(n)
    \/ \E size \in LongSizes : MkLong(size)
    \/ MkChoice2One
    \/ MkChoice2Two
    \/ MkChoice3One
    \/ MkChoice3Two
    \/ MkChoice3Three
    \/ \E m \in Modes, sink \in Sinks : Encode(m, sink)

Spec == Init /\ [][Next]_vars

-----------------------------------------------------------------------------
(* Decoding and re-encoding INTEGER content *)

SampleOctets == {0, 1, 44, 127, 128, 129, 255}
SampleHalves == {0, 1, 127, 128, 255, 256, 300, 32767, 32768, 65535}

RECURSIVE SeqsUpTo(_)
SeqsUpTo(n) ==
    IF n = 0 THEN {<<>>}
    ELSE LET shorter == SeqsUpTo(n - 1)
         IN  shorter \cup {Append(c, x) : c \in {d \in shorter : Len(d) = n - 1},
                                          x \in SampleOctets}

Contents == SeqsUpTo(MaxContentLen)

ValIdle ==
    /\ val = Nothing
    /\ steps = 0
    /\ mode = "Der"
    /\ len = -1
    /\ res = NoResult

InitInt ==
    /\ pc = "start"
    /\ ValIdle
    /\ IntIdle

\* Content octets arrive from the decode cursor.
Receive(c) ==
    /\ pc = "start"
    /\ pc' = "decode"
    /\ content' = c
    /\ UNCHANGED <<native, int, uns, plen, pres, valVars>>

\* Unsigned::from(n); its octets are what a peer will decode.
FromU32(n) ==
    /\ pc = "start"
    /\ pc' = "decode"
    /\ native' = n
    /\ content' = Unsigned_from(n)[1]
    /\ UNCHANGED <<int, uns, plen, pres, valVars>>

TakeInteger ==
    /\ pc = "decode"
    /\ int = NoDecode
    /\ int' = Integer_take_content_from(content)
    /\ UNCHANGED <<pc, content, native, uns, plen, pres, valVars>>

TakeUnsigned ==
    /\ pc = "decode"
    /\ uns = NoDecode
    /\ uns' = Unsigned_take_content_from(content)
    /\ UNCHANGED <<pc, content, native, int, plen, pres, valVars>>

\* The decoded Unsigned is encoded again as primitive content.
WriteUnsigned(m) ==
    /\ pc = "decode"
    /\ uns.result = Ok
    /\ pres = NoResult
    /\ mode' = m
    /\ plen' = Unsigned_encoded_len(uns.value, m)
    /\ pres' = Unsigned_write_encoded(uns.value, m,
                                       NewSink(Unlimited, "WriteZero"))
    /\ UNCHANGED <<pc, content, native, int, uns, val, steps, len, res>>

NextInt ==
    \/ pc = "start" /\ \E c \in Contents : Receive(c)
    \/ pc = "start" /\ \E hi \in SampleHalves, lo \in SampleHalves :
                          FromU32(U32(hi, lo))
    \/ TakeInteger
    \/ TakeUnsigned
    \/ \E m \in Modes : WriteUnsigned(m)

SpecInt == InitInt /\ [][NextInt]_vars

-----------------------------------------------------------------------------
(* Properties *)

IsPrefix(a, b) == Len(a) <= Len(b) /\ a = SubSeq(b, 1, Len(a))

RECURSIVE ConcatFrom(_, _)
ConcatFrom(seqs, i) ==
    IF i > Len(seqs) THEN <<>> ELSE seqs[i] \o ConcatFrom(seqs, i + 1)
Concat(seqs) == ConcatFrom(seqs, 1)

RECURSIVE SumFrom(_, _)
SumFrom(nums, i) ==
    IF i > Len(nums) THEN 0 ELSE nums[i] + SumFrom(nums, i + 1)

Children(v) ==
    CASE v.kind \in {"Nothing", "None"} -> <<>>
      [] v.kind = "Some" -> <<v.v>>
      [] v.kind = "Ref" -> <<v.to>>
      [] v.kind \in {"Tuple2", "Tuple3", "Tuple4"} -> v.fields
      [] v.kind \in {"Slice", "Vec"} -> v.items
      [] v.kind = "Iter" -> v.coll
      [] OTHER -> <<v.inner>>

\* The identifier octets of a tag with the constructed bit set.
ConstructedTag(tag) == <<tag[1] + 32>> \o Tail(tag)

RECURSIVE BigEndian(_)
BigEndian(octets) ==
    IF octets = <<>> THEN 0
    ELSE BigEndian(SubSeq(octets, 1, Len(octets) - 1)) * 256
         + octets[Len(octets)]

\* The length field that starts at out[pos]: its value (-1 when indefinite)
\* and the number of octets it takes.
ParseLength(out, pos) ==
    IF out[pos] < 128 THEN [value |-> out[pos], size |-> 1]
    ELSE IF out[pos] = 128 THEN [value |-> -1, size |-> 1]
    ELSE [value |-> BigEndian(SubSeq(out, pos + 1, pos + out[pos] - 128)),
          size |-> 1 + out[pos] - 128]

Encoded == pc = "encoded"
Written == Encoded /\ ~res.target.failed
ChoiceKinds ==
    {"Choice2_One", "Choice2_Two", "Choice3_One", "Choice3_Two",
     "Choice3_Three"}
ListKinds == {"Slice", "Vec", "Iter", "Tuple2", "Tuple3", "Tuple4"}

\* C1: on a sink that does not fail, write_encoded(mode) writes exactly
\* encoded_len(mode) octets, for every combinator value and every mode.
C1_LenIsWritten ==
    Written => /\ res.result = Ok
               /\ len = Len(res.target.out)

\* A DER SEQUENCE whose content is 128 octets, the first length that needs
\* the long form, was measured and written.
C1_Witness ==
    /\ Written
    /\ mode = "Der"
    /\ val.kind = "Constructed"
    /\ encoded_len(val.inner, "Der") = 128
    /\ len = Len(val.tag) + 2 + 128

CerFramed(c) ==
    to_captured(c, "Cer") =
        ConstructedTag(c.tag) \o <<128>> \o to_captured(c.inner, "Cer")
        \o <<0, 0>>

\* Every Constructed in v, v included, is framed so.
RECURSIVE CerFramedIn(_)
CerFramedIn(v) ==
    LET nested == Children(v)
    IN  /\ v.kind = "Constructed" => CerFramed(v)
        /\ \A i \in 1..Len(nested) : CerFramedIn(nested[i])

\* C2: under Cer every Constructed, at every nesting level, is written as its
\* tag with the constructed bit set, the single length octet 0x80, the inner
\* content and then the two octets 00 00.
C2_CerFraming ==
    (Written /\ mode = "Cer") =>
        /\ res.target.out = to_captured(val, "Cer")
        /\ CerFramedIn(val)

\* A Constructed inside a Constructed was written under Cer.
C2_Witness ==
    /\ Written
    /\ mode = "Cer"
    /\ val.kind = "Constructed"
    /\ val.inner.kind = "Constructed"
    /\ Len(res.target.out) = len

DefiniteFramed(c, m) ==
    LET inner == to_captured(c.inner, m)
        out == to_captured(c, m)
        h == Len(c.tag)
        field == ParseLength(out, h + 1)
    IN  /\ SubSeq(out, 1, h) = ConstructedTag(c.tag)
        /\ field.value = Len(inner)
        /\ SubSeq(out, h + field.size + 1, Len(out)) = inner

\* Every Constructed in v, v included, is framed so under the mode used.
RECURSIVE DefiniteFramedIn(_)
DefiniteFramedIn(v) ==
    LET nested == Children(v)
    IN  /\ v.kind = "Constructed"
              => DefiniteFramed(v, mode)
        /\ \A i \in 1..Len(nested) : DefiniteFramedIn(nested[i])

\* C3: under Ber and Der every Constructed is written as its tag with the
\* constructed bit set, a definite length field whose value is the number of
\* content octets, and the content with nothing after it; the Ber and the Der
\* output of a value are the same octets.
C3_DefiniteFraming ==
    (Written /\ mode \in {"Ber", "Der"}) =>
        /\ res.target.out = to_captured(val, mode)
        /\ to_captured(val, "Ber") = to_captured(val, "Der")
        /\ DefiniteFramedIn(val)

\* A Constructed with more than 127 content octets was written under Ber.
C3_Witness ==
    /\ Written
    /\ mode = "Ber"
    /\ val.kind = "Constructed"
    /\ encoded_len(val.inner, "Ber") > 127
    /\ res.target.out[Len(val.tag) + 1] = 129

\* C4: Integer::take_content_from fails with Malformed exactly for empty
\* content, a first octet 0x00 before a second octet with its high bit
\* clear, and a first octet 0xFF before a second octet with its high bit
\* set; otherwise the Integer holds the content octets as they are.  Octets
\* after the second do not matter.
C4_IntegerAcceptance ==
    int # NoDecode =>
        LET redundant ==
                \/ content = <<>>
                \/ Len(content) >= 2 /\ content[1] = 0 /\ content[2] < 128
                \/ Len(content) >= 2 /\ content[1] = 255 /\ content[2] >= 128
            firstTwo == SubSeq(content, 1, IF Len(content) < 2
                                              THEN Len(content) ELSE 2)
        IN  /\ redundant => int = Decoded(Malformed, <<>>)
            /\ ~redundant => int = Decoded(Ok, Integer(content))
            /\ int.result = Integer_take_content_from(firstTwo).result

\* The content FF 80 followed by a third octet was rejected.
C4_Witness ==
    /\ int.result = Malformed
    /\ Len(content) = 3
    /\ content[1] = 255
    /\ content[2] = 128

\* C5: Unsigned::take_content_from fails with Malformed whenever the first
\* octet has its high bit set, and otherwise accepts exactly what
\* Integer::take_content_from accepts; 0x80 alone is rejected as Unsigned and
\* accepted as Integer, and what Unsigned accepts Integer accepts.
C5_UnsignedAcceptance ==
    (int # NoDecode /\ uns # NoDecode) =>
        LET negative == content # <<>> /\ content[1] >= 128
        IN  /\ negative => uns = Decoded(Malformed, <<>>)
            /\ ~negative => uns.result = int.result
            /\ uns.result = Ok => int.result = Ok
            /\ content = <<128>> => uns.result = Malformed /\ int.result = Ok

\* The content 0x80 went through both decoders.
C5_Witness ==
    /\ content = <<128>>
    /\ uns.result = Malformed
    /\ int.result = Ok

\* C6: Unsigned::from(n) holds the minimal big-endian two's complement
\* octets of n: at least one octet, the value of n, the sign bit clear, and a
\* leading 0x00 only before an octet with its high bit set; 300 gives 01 2C
\* and 128 gives 00 80.  Unsigned::take_content_from accepts these octets.
C6_FromU32Minimal ==
    native # NoNative =>
        /\ Len(content) \in 1..5
        /\ [i \in 1..(5 - Len(content)) |-> 0] \o content
               = <<0>> \o to_be_bytes(native)
        /\ content[1] < 128
        /\ (Len(content) > 1 /\ content[1] = 0) => content[2] >= 128
        /\ native = U32(0, 300) => content = <<1, 44>>
        /\ native = U32(0, 128) => content = <<0, 128>>
        /\ uns # NoDecode => uns = Decoded(Ok, Unsigned(content))

\* A u32 with its top bit set was converted to five octets, which
\* Unsigned::take_content_from accepted.
C6_Witness ==
    /\ native # NoNative
    /\ native.hi >= 32768
    /\ Len(content) = 5
    /\ uns.result = Ok

\* C7: when the sink fails during write_encoded, write_encoded returns the
\* sink's error, nothing is written to the sink after the failing write, and
\* what the sink accepted is a prefix of the full encoding.
C7_FailureAborts ==
    (Encoded /\ res.target.failed) =>
        /\ res.result = res.target.kind
        /\ res.target.late = 0
        /\ IsPrefix(res.target.out, to_captured(val, mode))

\* The sink failed inside the content of a Cer Constructed, before the
\* end-of-contents octets.
C7_Witness ==
    /\ Encoded
    /\ res.target.failed
    /\ mode = "Cer"
    /\ val.kind = "Constructed"
    /\ val.inner.kind = "Constructed"
    /\ Len(res.target.out) = Len(val.tag) + 2

\* C8: a slice, Vec, Iter or tuple is written as the concatenation of each
\* item's own encoding in order, and an empty one as no octets; the length
\* pass sums the same items in the same order.
C8_Concatenation ==
    (Written /\ val.kind \in ListKinds) =>
        LET items == Children(val)
            each == [i \in 1..Len(items) |-> to_captured(items[i], mode)]
        IN  /\ res.target.out = Concat(each)
            /\ len = SumFrom([i \in 1..Len(items) |->
                                 encoded_len(items[i], mode)], 1)
            /\ items = <<>> => res.target.out = <<>> /\ len = 0

\* An Iter over two items with different encodings was written.
C8_Witness ==
    /\ Written
    /\ val.kind = "Iter"
    /\ Len(val.coll) = 2
    /\ to_captured(val.coll[1], mode) # to_captured(val.coll[2], mode)
    /\ to_captured(val.coll[1], mode) # <<>>

\* C9: a Choice2 or Choice3 reports the encoded_len of the wrapped value and
\* writes the octets the wrapped value writes, and nothing else.
C9_ChoiceDelegates ==
    (Written /\ val.kind \in ChoiceKinds) =>
        /\ len = encoded_len(val.inner, mode)
        /\ res.target.out = to_captured(val.inner, mode)

\* Choice3::Three around a value with a non-empty encoding was written.
C9_Witness ==
    /\ Written
    /\ val.kind = "Choice3_Three"
    /\ res.target.out # <<>>

\* C10: an Unsigned that take_content_from accepted reports the number of
\* input octets as its encoded_len and writes exactly the input octets, in
\* every mode.
C10_UnsignedRoundTrip ==
    pres # NoResult =>
        /\ plen = Len(content)
        /\ pres.result = Ok
        /\ pres.target.out = content
        /\ \A m \in Modes :
              /\ Unsigned_encoded_len(uns.value, m) = Len(content)
              /\ Unsigned_write_encoded(
                     uns.value, m, NewSink(Unlimited, "WriteZero")).target.out
                 = content

\* The received content 00 80 was decoded as Unsigned and written under Cer.
C10_Witness ==
    /\ pres # NoResult
    /\ native = NoNative
    /\ content = <<0, 128>>
    /\ mode = "Cer"

====
